---- MODULE Spec2Model ----
(***************************************************************************)
(* A model of process.py, the static library merger: one run of main(),    *)
(* from argument parsing to sys.exit.  The external tools (ar, ranlib,     *)
(* cygpath) are opaque collaborators: each invocation is a step that is    *)
(* started by _run_command and later returns zero or non-zero.             *)
(*                                                                         *)
(* Strings are modelled as sequences of tokens, so that suffix tests,      *)
(* stems, joins and splits are computed rather than assumed:               *)
(*   "libA.dll.a"      is  <<"libA", ".", "dll", ".", "a">>                    *)
(*   "TMP/libA/a.o"    is  <<"TMP", "/", "libA", "/", "a", ".", "o">>          *)
(***************************************************************************)
EXTENDS Naturals, Sequences, FiniteSets, TLC

VARIABLES
    hostOS,        \* what platform.system() returns on this host
    installIsDir,  \* whether --llvm-install-dir names a directory
    llvmLibs,      \* file names matching lib/*.a in the install directory
    stdLibPresent, \* whether libstdc++.a is where the lookup searches
    pc,            \* position of the run inside main()
    system,        \* self.system
    obj_ext,       \* self.obj_ext
    ar_cmd,        \* self.ar_cmd
    tmpdir,        \* the scratch directory: "none", "present", "removed"
    scratchDirs,   \* directories under the scratch directory
    scratchFiles,  \* files under the scratch directory
    todo,          \* archives the glob of extract_llvm_objects has yet to yield
    obj_files,     \* the list the scan of merge_objects produced
    scanned,       \* whether that scan has happened
    listFile,      \* the NamedTemporaryFile of _merge_with_filelist
    parentDir,     \* whether the output's parent directory exists
    output,        \* the file at the output path
    output0,       \* the file at the output path when the run began
    parentDir0,    \* parentDir when the run began
    running,       \* the external command in flight
    cmds,          \* every external command that has returned, with its status
    warned,        \* whether extract_std_objects logged its warning
    exc,           \* whether an exception is propagating
    exitCode       \* the process exit status, 0 until sys.exit(1)

vars == <<hostOS, installIsDir, llvmLibs, stdLibPresent, pc, system, obj_ext,
          ar_cmd, tmpdir, scratchDirs, scratchFiles, todo, obj_files, scanned,
          listFile, parentDir, output, output0, parentDir0, running, cmds,
          warned, exc, exitCode>>

\* The part of the state that is the host's input and never changes.
env == <<hostOS, installIsDir, llvmLibs, stdLibPresent, output0, parentDir0>>

\* The fields of the StaticLibraryMerger object set by __init__.
profile == <<system, obj_ext, ar_cmd>>

\* The scratch area.
scratch == <<tmpdir, scratchDirs, scratchFiles>>

\* The output path and its parent.
out == <<parentDir, output>>

-----------------------------------------------------------------------------
(* Bounds *)

\* At most this many archives lie in the install directory's lib/.
MaxLibs == 2

-----------------------------------------------------------------------------
(* Token strings *)

\* str.endswith
EndsWith(s, suffix) ==
    /\ Len(s) >= Len(suffix)
    /\ SubSeq(s, Len(s) - Len(suffix) + 1, Len(s)) = suffix

\* The positions of token t in s.
Positions(s, t) == {i \in 1..Len(s) : s[i] = t}

Max(S) == CHOOSE x \in S : \A y \in S : y <= x
Min(S) == CHOOSE x \in S : \A y \in S : x <= y

\* The final path component: everything after the last "/".
PathName(p) ==
    IF Positions(p, "/") = {} THEN p
    ELSE SubSeq(p, Max(Positions(p, "/")) + 1, Len(p))

\* pathlib's PurePath.stem: the final component without its last suffix.
PathStem(p) ==
    LET n == PathName(p)
        dots == Positions(n, ".") \ {1, Len(n)}
    IN  IF dots = {} THEN n ELSE SubSeq(n, 1, Max(dots) - 1)

\* str(path).replace('\\', '/').split('/')[-1].split('.')[0]
FirstDotSplit(p) ==
    LET n == PathName(p)
    IN  IF Positions(n, ".") = {} THEN n
        ELSE SubSeq(n, 1, Min(Positions(n, ".")) - 1)

\* pathlib's "/" operator.
Join(dir, name) == dir \o <<"/">> \o name

\* '\n'.join(lines)
RECURSIVE JoinLines(_)
JoinLines(lines) ==
    IF Len(lines) = 0 THEN <<>>
    ELSE IF Len(lines) = 1 THEN lines[1]
    ELSE lines[1] \o <<"\n">> \o JoinLines(Tail(lines))

\* How the archiver reads an @file: one argument per line.
RECURSIVE SplitLines(_)
SplitLines(text) ==
    IF Positions(text, "\n") = {} THEN
        IF text = <<>> THEN <<>> ELSE <<text>>
    ELSE LET i == Min(Positions(text, "\n"))
         IN  (IF i = 1 THEN <<>> ELSE <<SubSeq(text, 1, i - 1)>>)
             \o SplitLines(SubSeq(text, i + 1, Len(text)))

\* An arbitrary but fixed enumeration of a finite set, as a directory walk gives.
RECURSIVE SetToSeq(_)
SetToSeq(S) ==
    IF S = {} THEN <<>>
    ELSE LET x == CHOOSE x \in S : TRUE IN <<x>> \o SetToSeq(S \ {x})

Range(s) == {s[i] : i \in 1..Len(s)}

-----------------------------------------------------------------------------
(* The host: operating systems, archives on disk, the output path *)

Linux   == <<"Linux">>
Windows == <<"Windows">>
Darwin  == <<"Darwin">>
Msys    == <<"MSYS", "_NT-10.0">>
FreeBSD == <<"FreeBSD">>

HostSystems == {Linux, Windows, Darwin, Msys, FreeBSD}

\* File names that may lie in <install>/lib and match *.a.
LibUniverse ==
    { <<"libA", ".", "a">>,
      <<"libB", ".", "a">>,
      <<"libA", ".", "1", ".", "a">>,
      <<"libC", ".", "dll", ".", "a">>,
      <<"libE", ".", "a">> }

\* The members 'ar x' unpacks from an archive, by the archive's file name.
LibMembers(name) ==
    CASE name = <<"libA", ".", "a">> -> {<<"a", ".", "o">>, <<"x", ".", "o">>}
      [] name = <<"libB", ".", "a">> -> {<<"b", ".", "obj">>}
      [] name = <<"libA", ".", "1", ".", "a">> -> {<<"x", ".", "o">>}
      [] name = <<"libC", ".", "dll", ".", "a">> -> {<<"c", ".", "o">>}
      [] name = <<"libE", ".", "a">> -> {<<"README", ".", "txt">>}
      [] name = <<"libstdc++", ".", "a">> -> {<<"compat", ".", "o">>}
      [] OTHER -> {}

InstallLib == <<"LLVM", "/", "lib">>
TmpRoot    == <<"TMP">>
OutPath    == <<"OUT", "/", "combined", ".", "a">>
ListName   == <<"TMPFILE">>

\* A file at the output path: absent, or an archive with members and maybe an index.
NoFile     == [exists |-> FALSE, members |-> {}, index |-> FALSE]
OldArchive == [exists |-> TRUE, members |-> {<<"OLD">>}, index |-> TRUE]

NoListFile == [exists |-> FALSE, content |-> <<>>]

NoCmd == [argv |-> <<>>, cwd |-> <<>>]
Cmd(argv, cwd) == [argv |-> argv, cwd |-> cwd]
Done(cmd, rc) == [argv |-> cmd.argv, cwd |-> cmd.cwd, rc |-> rc]

-----------------------------------------------------------------------------
(* Platform profile *)

\* __init__: an MSYS-prefixed system name is Windows.
NormalizeSystem(os) == IF os[1] = "MSYS" THEN Windows ELSE os

_get_obj_ext(sys) == IF sys = Windows THEN <<".", "obj">> ELSE <<".", "o">>

\* What 'cygpath -w' prints for a POSIX path.
CygpathW(p) == <<"C:", "/", "msys64">> \o p

MingwAr  == <<"/", "mingw64", "/", "bin", "/", "ar", ".", "exe">>
MingwStd == <<"/", "mingw64", "/", "lib", "/", "libstdc++", ".", "a">>
LinuxStd == <<"/", "usr", "/", "lib", "/", "gcc", "/", "libstdc++", ".", "a">>

\* _to_win_path, when cygpath succeeds.
_to_win_path(sys, p) == IF sys # Windows THEN p ELSE CygpathW(p)

\* Whether evaluating _to_win_path runs cygpath.
CallsCygpath(sys) == sys = Windows

CygpathCmd(p) == Cmd(<<<<"cygpath">>, <<"-w">>, p>>, <<>>)

\* The outcomes cygpath can have where it is called.
CygOutcomes(sys) == IF CallsCygpath(sys) THEN {0, 1} ELSE {0}

\* The log of one _to_win_path evaluation.
CygLog(sys, p, rc) == IF CallsCygpath(sys) THEN <<Done(CygpathCmd(p), rc)>> ELSE <<>>

_get_ar(sys) == IF sys = Windows THEN _to_win_path(sys, MingwAr) ELSE <<"ar">>

\* A variant that lets an unknown system through.
IsSupported_Any(sys) == TRUE

\* _get_ar_command raises for any other system.
IsSupported(sys) == sys \in {Darwin, Windows, Linux}

_get_ar_flags(sys) ==
    IF sys = Darwin THEN <<"-qcT">>
    ELSE IF sys = Windows THEN <<"-rcs">>
    ELSE <<"-rcs">>

_get_ar_command(sys) == <<_get_ar(sys), _get_ar_flags(sys)>>

_get_stem(sys, path) == IF sys # Windows THEN PathStem(path) ELSE FirstDotSplit(path)

\* merge_objects: the file-list strategy is used everywhere but on macOS.
UsesFileList(sys) == sys # Darwin

-----------------------------------------------------------------------------
(* Control flow helpers *)

\* A variant without check=True: the status is ignored.
CommandRaises_Never(rc) == FALSE

\* subprocess.run(check=True): a non-zero status raises CalledProcessError.
CommandRaises(rc) == rc # 0

\* main: sys.exit(1) in the except branch, a normal return otherwise.
ExitStatus(e) == IF e THEN 1 ELSE 0

\* A variant of the workflow that goes from the standard library straight to the merge.
AfterStd_SkipLLVM == "merge_objects"

\* The order of the workflow in merge_libraries.
AfterScratch == "extract_std"
AfterStd     == "extract_llvm"
AfterLLVM    == "merge_objects"

\* A variant that cleans up only at the end of the try block's normal path.
TemporaryDirectoryExit_KeepOnError(e) == IF e THEN "present" ELSE "removed"

\* tempfile.TemporaryDirectory.__exit__: the directory is removed, raised or not.
TemporaryDirectoryExit(e) == "removed"

\* A variant with delete=False.
ListFileExit_Keep(f) == f

\* NamedTemporaryFile.__exit__: the file is closed, and deleted on close.
ListFileExit(f) == NoListFile

\* A variant that leaves an existing output in place.
RemoveExisting_Keep(f) == f

\* merge_objects: unlink an existing output.
RemoveExisting(f) == IF f.exists THEN NoFile ELSE f

\* A variant that lets the lookup's exception propagate.
StdLookupFailureRaises_Propagates == TRUE

\* extract_std_objects: the lookup's exception is logged as a warning and dropped.
StdLookupFailureRaises == FALSE

-----------------------------------------------------------------------------
(* The external tools *)

\* Path.rglob('*' + ext) below the scratch directory: every entry, file or
\* directory, whose name ends with the extension.
Rglob(dirs, files, ext) == SetToSeq({p \in dirs \cup files : EndsWith(p, ext)})

\* The files 'ar x <archive>' leaves in its working directory.
Extracted(cwd, archive) == {Join(cwd, m) : m \in LibMembers(PathName(archive))}

IsListArg(a) == Len(a) > 0 /\ a[1] = "@"

\* Whether the archiver can read everything its command line names.
ArReadable(argv, lf) ==
    \A i \in 4..Len(argv) : IsListArg(argv[i]) => lf.exists

\* The member files a create command names, @file arguments expanded.
RECURSIVE ArInputs(_, _)
ArInputs(args, lf) ==
    IF args = <<>> THEN <<>>
    ELSE (IF IsListArg(args[1]) THEN SplitLines(lf.content) ELSE <<args[1]>>)
         \o ArInputs(Tail(args), lf)

\* The output path after a successful 'ar <flags> <output> <members>': an
\* existing archive keeps what it held, the named members are added.
ArCreate(f, argv, lf) ==
    [exists  |-> TRUE,
     members |-> f.members \cup Range(ArInputs(SubSeq(argv, 4, Len(argv)), lf)),
     index   |-> argv[2] \in {<<"-rcs">>, <<"-qcs">>}]

\* The output path after a successful ranlib.
Ranlib(f) == [f EXCEPT !.index = TRUE]

-----------------------------------------------------------------------------
(* Initial states *)

Init ==
    /\ hostOS \in HostSystems
    /\ installIsDir \in BOOLEAN
    /\ llvmLibs \in {L \in SUBSET LibUniverse : Cardinality(L) <= MaxLibs}
    /\ stdLibPresent \in BOOLEAN
    /\ output0 \in {NoFile, OldArchive}
    /\ parentDir0 \in {b \in BOOLEAN : output0.exists => b}
    /\ pc = "start"
    /\ system = <<>>
    /\ obj_ext = <<>>
    /\ ar_cmd = <<>>
    /\ tmpdir = "none"
    /\ scratchDirs = {}
    /\ scratchFiles = {}
    /\ todo = llvmLibs
    /\ obj_files = <<>>
    /\ scanned = FALSE
    /\ listFile = NoListFile
    /\ parentDir = parentDir0
    /\ output = output0
    /\ running = NoCmd
    /\ cmds = <<>>
    /\ warned = FALSE
    /\ exc = FALSE
    /\ exitCode = 0

-----------------------------------------------------------------------------
(* Steps of the run *)

\* An exception raised inside the try block of merge_libraries: logged,
\* re-raised, and the with statement is left.
Raise ==
    /\ exc' = TRUE
    /\ pc' = "with_exit"

\* _run_command returns: the status is logged; non-zero raises, zero goes on.
Return(rc, next) ==
    /\ cmds' = Append(cmds, Done(running, rc))
    /\ running' = NoCmd
    /\ IF CommandRaises(rc) THEN Raise ELSE pc' = next /\ exc' = exc

\* main and __init__: validate the install directory, resolve the platform.
Construct ==
    /\ pc = "start"
    /\ IF ~installIsDir
       THEN /\ exc' = TRUE
            /\ pc' = "main_end"
            /\ UNCHANGED <<profile, cmds>>
       ELSE LET sys == NormalizeSystem(hostOS) IN
            /\ system' = sys
            /\ obj_ext' = _get_obj_ext(sys)
            /\ IF ~IsSupported(sys)
               THEN /\ exc' = TRUE
                    /\ pc' = "main_end"
                    /\ UNCHANGED <<ar_cmd, cmds>>
               ELSE \E rc \in CygOutcomes(sys) :
                    /\ cmds' = cmds \o CygLog(sys, MingwAr, rc)
                    /\ IF rc # 0
                       THEN exc' = TRUE /\ pc' = "main_end" /\ UNCHANGED ar_cmd
                       ELSE /\ ar_cmd' = _get_ar_command(sys)
                            /\ pc' = "constructed"
                            /\ exc' = exc
    /\ UNCHANGED <<env, scratch, todo, obj_files, scanned, listFile, out,
                   running, warned, exitCode>>

\* merge_libraries: enter the TemporaryDirectory.
CreateScratch ==
    /\ pc = "constructed"
    /\ tmpdir' = "present"
    /\ pc' = AfterScratch
    /\ UNCHANGED <<env, profile, scratchDirs, scratchFiles, todo, obj_files,
                   scanned, listFile, out, running, cmds, warned, exc, exitCode>>

\* _find_std_library: where the archive was found, or <<>> when the lookup raised.
\* rc is the status of the lookup's cygpath call.
_find_std_library(sys, present, rc) ==
    IF sys = Linux THEN (IF present THEN LinuxStd ELSE <<>>)
    ELSE IF sys = Windows
         THEN (IF rc = 0 /\ present THEN _to_win_path(sys, MingwStd) ELSE <<>>)
    ELSE <<>>

\* extract_std_objects, up to the start of its 'ar x'.
ExtractStd ==
    /\ pc = "extract_std"
    /\ IF system = Darwin
       THEN /\ pc' = AfterStd
            /\ UNCHANGED <<scratchDirs, running, cmds, warned, exc>>
       ELSE \E rc1 \in CygOutcomes(system), rc2 \in CygOutcomes(system) :
            LET std_lib == _find_std_library(system, stdLibPresent, rc1)
                output_dir == Join(TmpRoot, _get_stem(system, std_lib))
            IN  IF std_lib = <<>>
                THEN /\ rc2 = 0
                     /\ cmds' = cmds \o CygLog(system, MingwStd, rc1)
                     /\ warned' = TRUE
                     /\ IF StdLookupFailureRaises THEN Raise
                        ELSE pc' = AfterStd /\ exc' = exc
                     /\ UNCHANGED <<scratchDirs, running>>
                ELSE /\ scratchDirs' = scratchDirs \cup {output_dir}
                     /\ cmds' = cmds \o CygLog(system, MingwStd, rc1)
                                     \o CygLog(system, MingwAr, rc2)
                     /\ UNCHANGED warned
                     /\ IF rc2 # 0
                        THEN Raise /\ UNCHANGED running
                        ELSE /\ running' = Cmd(<<_get_ar(system), <<"x">>, std_lib>>,
                                               output_dir)
                             /\ pc' = "std_running"
                             /\ exc' = exc
    /\ UNCHANGED <<env, profile, tmpdir, scratchFiles, todo, obj_files, scanned,
                   listFile, out, exitCode>>

\* An 'ar x' that failed may have unpacked any part of the archive.
ExtractOutcome(rc) ==
    IF rc = 0 THEN {Extracted(running.cwd, running.argv[3])}
    ELSE SUBSET Extracted(running.cwd, running.argv[3])

\* The standard library's 'ar x' returns.
StdReturn ==
    /\ pc = "std_running"
    /\ \E rc \in {0, 1} :
         /\ Return(rc, AfterStd)
         /\ \E got \in ExtractOutcome(rc) : scratchFiles' = scratchFiles \cup got
    /\ UNCHANGED <<env, profile, tmpdir, scratchDirs, todo, obj_files, scanned,
                   listFile, out, warned, exitCode>>

\* extract_llvm_objects: one iteration of the loop over lib/*.a, up to the
\* start of its 'ar x'.
ExtractLLVMNext ==
    /\ pc = "extract_llvm"
    /\ \E lib \in todo :
         /\ todo' = todo \ {lib}
         /\ IF EndsWith(lib, <<".", "dll", ".", "a">>)
            THEN UNCHANGED <<pc, scratchDirs, running, cmds, exc>>
            ELSE LET lib_path == Join(InstallLib, lib)
                     output_dir == Join(TmpRoot, _get_stem(system, lib_path))
                 IN  /\ scratchDirs' = scratchDirs \cup {output_dir}
                     /\ \E rc \in CygOutcomes(system) :
                          /\ cmds' = cmds \o CygLog(system, MingwAr, rc)
                          /\ IF rc # 0
                             THEN Raise /\ UNCHANGED running
                             ELSE /\ running' = Cmd(<<_get_ar(system), <<"x">>,
                                                      lib_path>>, output_dir)
                                  /\ pc' = "llvm_running"
                                  /\ exc' = exc
    /\ UNCHANGED <<env, profile, tmpdir, scratchFiles, obj_files, scanned,
                   listFile, out, warned, exitCode>>

\* An LLVM archive's 'ar x' returns.
LLVMReturn ==
    /\ pc = "llvm_running"
    /\ \E rc \in {0, 1} :
         /\ Return(rc, "extract_llvm")
         /\ \E got \in ExtractOutcome(rc) : scratchFiles' = scratchFiles \cup got
    /\ UNCHANGED <<env, profile, tmpdir, scratchDirs, todo, obj_files, scanned,
                   listFile, out, warned, exitCode>>

\* extract_llvm_objects: the glob is exhausted.
ExtractLLVMEnd ==
    /\ pc = "extract_llvm"
    /\ todo = {}
    /\ pc' = AfterLLVM
    /\ UNCHANGED <<env, profile, scratch, todo, obj_files, scanned, listFile,
                   out, running, cmds, warned, exc, exitCode>>

\* merge_objects: create the output's parent directory, remove an existing output.
PrepareOutput ==
    /\ pc = "merge_objects"
    /\ parentDir' = TRUE
    /\ output' = RemoveExisting(output)
    /\ pc' = "collect"
    /\ UNCHANGED <<env, profile, scratch, todo, obj_files, scanned, listFile,
                   running, cmds, warned, exc, exitCode>>

\* merge_objects: scan the scratch directory; nothing to merge is an error.
CollectObjects ==
    /\ pc = "collect"
    /\ obj_files' = Rglob(scratchDirs, scratchFiles, obj_ext)
    /\ scanned' = TRUE
    /\ IF obj_files' = <<>> THEN Raise ELSE pc' = "dispatch" /\ exc' = exc
    /\ UNCHANGED <<env, profile, scratch, todo, listFile, out, running, cmds,
                   warned, exitCode>>

\* _merge_direct: the command line names every object.
_merge_direct(objs) == Cmd(ar_cmd \o <<OutPath>> \o objs, <<>>)

\* _merge_with_filelist: the command line names the list file.
_merge_with_filelist(name) == Cmd(ar_cmd \o <<OutPath, <<"@">> \o name>>, <<>>)

\* merge_objects: choose the strategy, write the list file if any, start the archiver.
DispatchMerge ==
    /\ pc = "dispatch"
    /\ IF UsesFileList(system)
       THEN /\ listFile' = [exists |-> TRUE, content |-> JoinLines(obj_files)]
            /\ running' = _merge_with_filelist(ListName)
       ELSE /\ running' = _merge_direct(obj_files)
            /\ UNCHANGED listFile
    /\ pc' = "merge_running"
    /\ UNCHANGED <<env, profile, scratch, todo, obj_files, scanned, out, cmds,
                   warned, exc, exitCode>>

\* What a failed create command may leave at the output path.
ArFailed(f, argv, lf) == {f, ArCreate(f, SubSeq(argv, 1, 3), lf)}

\* The archiver returns; the with statement of _merge_with_filelist is left.
MergeReturn ==
    /\ pc = "merge_running"
    /\ \E rc \in IF ArReadable(running.argv, listFile) THEN {0, 1} ELSE {1} :
         /\ Return(rc, "run_ranlib")
         /\ IF rc = 0
            THEN output' = ArCreate(output, running.argv, listFile)
            ELSE output' \in ArFailed(output, running.argv, listFile)
    /\ listFile' = IF UsesFileList(system) THEN ListFileExit(listFile) ELSE listFile
    /\ UNCHANGED <<env, profile, scratch, todo, obj_files, scanned, parentDir,
                   warned, exitCode>>

\* _run_ranlib: start ranlib on the output.
RunRanlib ==
    /\ pc = "run_ranlib"
    /\ running' = Cmd(<<<<"ranlib">>, OutPath>>, <<>>)
    /\ pc' = "ranlib_running"
    /\ UNCHANGED <<env, profile, scratch, todo, obj_files, scanned, listFile,
                   out, cmds, warned, exc, exitCode>>

\* ranlib returns; merge_objects and the try block are done.
RanlibReturn ==
    /\ pc = "ranlib_running"
    /\ \E rc \in IF output.exists THEN {0, 1} ELSE {1} :
         /\ Return(rc, "with_exit")
         /\ output' = IF rc = 0 THEN Ranlib(output) ELSE output
    /\ UNCHANGED <<env, profile, scratch, todo, obj_files, scanned, listFile,
                   parentDir, warned, exitCode>>

\* merge_libraries: the with statement is left, normally or by the exception.
WithExit ==
    /\ pc = "with_exit"
    /\ tmpdir' = TemporaryDirectoryExit(exc)
    /\ IF tmpdir' = "removed"
       THEN scratchDirs' = {} /\ scratchFiles' = {}
       ELSE UNCHANGED <<scratchDirs, scratchFiles>>
    /\ pc' = "main_end"
    /\ UNCHANGED <<env, profile, todo, obj_files, scanned, listFile, out,
                   running, cmds, warned, exc, exitCode>>

\* main: log success and return, or log the fatal error and sys.exit(1).
MainExit ==
    /\ pc = "main_end"
    /\ exitCode' = ExitStatus(exc)
    /\ pc' = "exit"
    /\ UNCHANGED <<env, profile, scratch, todo, obj_files, scanned, listFile,
                   out, running, cmds, warned, exc>>

Next ==
    \/ Construct
    \/ CreateScratch
    \/ ExtractStd
    \/ StdReturn
    \/ ExtractLLVMNext
    \/ LLVMReturn
    \/ ExtractLLVMEnd
    \/ PrepareOutput
    \/ CollectObjects
    \/ DispatchMerge
    \/ MergeReturn
    \/ RunRanlib
    \/ RanlibReturn
    \/ WithExit
    \/ MainExit

Spec == Init /\ [][Next]_vars

-----------------------------------------------------------------------------
(* Vocabulary of the properties *)

IsCygpath(c) == c.argv # <<>> /\ c.argv[1] = <<"cygpath">>
IsRanlib(c)  == c.argv # <<>> /\ c.argv[1] = <<"ranlib">>
IsArX(c)     == Len(c.argv) = 3 /\ c.argv[2] = <<"x">>
IsMerge(c)   == Len(c.argv) >= 4 /\ c.argv[3] = OutPath

\* What a command is: a path translation, an extraction, the merge, or ranlib.
Kind(c) ==
    IF IsCygpath(c) THEN "cygpath"
    ELSE IF IsRanlib(c) THEN "ranlib"
    ELSE IF IsArX(c) THEN "x"
    ELSE IF IsMerge(c) THEN "merge"
    ELSE "none"

Tools == {"x", "merge", "ranlib"}

\* Positions in the log of the commands of the kinds K: all, failed, succeeded.
Returned(K) == {i \in 1..Len(cmds) : Kind(cmds[i]) \in K}
Failed(K) == {i \in Returned(K) : cmds[i].rc # 0}
Succeeded(K) == {i \in Returned(K) : cmds[i].rc = 0}

\* The host reports a system the tool does not know.
UnsupportedHost == hostOS \notin {Linux, Windows, Darwin} /\ hostOS[1] # "MSYS"

ConfigurationError == ~installIsDir \/ UnsupportedHost

IsImportLib(lib) == EndsWith(lib, <<".", "dll", ".", "a">>)

\* The object extension of the host's platform.
HostObjExt == IF hostOS = Windows \/ hostOS[1] = "MSYS" THEN <<".", "obj">> ELSE <<".", "o">>

\* Some LLVM archive that is extracted holds a file with the platform's object extension.
LLVMYieldsObject ==
    \E lib \in llvmLibs :
        ~IsImportLib(lib) /\ \E m \in LibMembers(lib) : EndsWith(m, HostObjExt)

IsStdExtract(c) == IsArX(c) /\ PathName(c.argv[3]) = <<"libstdc++", ".", "a">>

StdExtracts(I) == {i \in I : IsStdExtract(cmds[i])}

IsExtractOf(lib, c) == IsArX(c) /\ c.argv[3] = Join(InstallLib, lib)

Terminal == pc \in {"main_end", "exit"}

\* Every external command that has returned, returned zero.
AllSucceeded == \A i \in 1..Len(cmds) : cmds[i].rc = 0

-----------------------------------------------------------------------------
(* Properties *)

\* C1: when the scan finds no object file the run exits non-zero and the file
\* that was at the output path before the run is still there, unchanged.
C1_EmptyScanKeepsOutput ==
    (pc = "exit" /\ scanned /\ obj_files = <<>>) =>
        (exitCode # 0 /\ output = output0)

\* C2: no terminal state of the run, successful or failed, has the scratch
\* directory (or anything in it) still present, and a run that got past
\* construction, and so created it, ends with it removed.
C2_ScratchRemoved ==
    /\ Terminal => (tmpdir # "present" /\ scratchDirs = {} /\ scratchFiles = {})
    /\ (Terminal /\ ar_cmd # <<>>) => tmpdir = "removed"

C2_Witness ==
    /\ pc = "exit"
    /\ exitCode = 1
    /\ tmpdir = "removed"
    /\ Failed({"merge"}) # {}

\* C3: with an install directory that is no directory, or an unknown system,
\* the run exits with status 1 and has created no scratch directory, has not
\* touched the output path or its parent, and has run neither ar nor ranlib.
C3_ConfigErrorNoSideEffect ==
    ConfigurationError =>
        /\ pc \in {"start", "main_end", "exit"}
        /\ tmpdir = "none"
        /\ parentDir = parentDir0
        /\ output = output0
        /\ running = NoCmd
        /\ Returned(Tools) = {}
        /\ pc = "exit" => exitCode = 1

C3_Witness ==
    /\ pc = "exit"
    /\ hostOS = FreeBSD
    /\ installIsDir
    /\ output0.exists
    /\ exitCode = 1

\* C4: when the standard-library lookup fails on Linux or Windows, only a
\* warning is logged, no extraction of the standard library is run, and the
\* run goes on: if every external command succeeds and some LLVM archive
\* yields an object file, every LLVM archive is extracted, the merge and
\* ranlib are run, and the exit status is 0.
C4_StdLookupFailureNonFatal ==
    warned =>
        /\ system \in {Linux, Windows}
        /\ ~IsStdExtract(running)
        /\ StdExtracts(Returned({"x"})) = {}
        /\ (pc = "exit" /\ AllSucceeded /\ LLVMYieldsObject) =>
             /\ exitCode = 0
             /\ \A lib \in llvmLibs :
                  ~IsImportLib(lib) => \E i \in Succeeded({"x"}) : IsExtractOf(lib, cmds[i])
             /\ Succeeded({"merge"}) # {}
             /\ Succeeded({"ranlib"}) # {}

C4_Witness ==
    /\ pc = "exit"
    /\ warned
    /\ ~stdLibPresent
    /\ exitCode = 0
    /\ Succeeded({"ranlib"}) # {}

\* C5: a non-zero exit of an 'ar x', of the merge command or of ranlib is the
\* last thing the run executes: no command is started after it, the exception
\* propagates, and the process exits with status 1.
C5_FailStop ==
    \A i \in Failed(Tools) :
        /\ i = Len(cmds)
        /\ running = NoCmd
        /\ exc
        /\ pc \in {"with_exit", "main_end", "exit"}
        /\ pc = "exit" => exitCode = 1

C5_Witness ==
    /\ pc = "exit"
    /\ exitCode = 1
    /\ Failed({"x"}) # {}
    /\ Succeeded({"x"}) # {}
    /\ todo # {}

\* C6: when the merge command is started no file exists at the output path,
\* and after a successful run the output archive holds exactly the scanned
\* object files and nothing of the file that was there before.
C6_OutputReplaced ==
    /\ pc = "merge_running" => ~output.exists
    /\ (pc = "exit" /\ exitCode = 0) =>
         /\ output.exists
         /\ output.members = Range(obj_files)
         /\ <<"OLD">> \notin output.members

C6_Witness ==
    /\ pc = "exit"
    /\ exitCode = 0
    /\ output0.exists
    /\ system = Linux
    /\ Len(obj_files) >= 2

\* C7: the scan happens only after every extraction has completed (each
\* non-import LLVM archive, and the standard library where it was found), the
\* merge command is started only after the scan, and ranlib is started only
\* after the merge command has returned zero.
C7_StepOrder ==
    /\ scanned =>
         /\ todo = {}
         /\ ~IsArX(running)
         /\ \A lib \in llvmLibs :
              ~IsImportLib(lib) => \E i \in Succeeded({"x"}) : IsExtractOf(lib, cmds[i])
         /\ (system # Darwin /\ ~warned) => StdExtracts(Succeeded({"x"})) # {}
    /\ (IsMerge(running) \/ Returned({"merge"}) # {}) => scanned
    /\ (IsRanlib(running) \/ Returned({"ranlib"}) # {}) => Succeeded({"merge"}) # {}

C7_Witness ==
    /\ pc = "exit"
    /\ Returned({"ranlib"}) # {}
    /\ StdExtracts(Succeeded({"x"})) # {}
    /\ Cardinality(Succeeded({"x"})) >= 3

\* C8: the merge command's flags are those of the profile chosen at startup:
\* 'ar -qcT <output> ...' on macOS and 'ar -qcs <output> @<listfile>' on Linux.
C8_MergeFlags ==
    pc = "merge_running" =>
        /\ SubSeq(running.argv, 1, 2) = ar_cmd
        /\ running.argv[3] = OutPath
        /\ system = Darwin => running.argv[2] = <<"-qcT">>
        /\ system = Linux =>
             /\ running.argv[2] = <<"-qcs">>
             /\ running.argv[4] = <<"@">> \o ListName

\* C9: on macOS the archiver is started once with every scanned object on its
\* command line; elsewhere the scanned objects are written one per line into
\* a new temporary file and the archiver is started once with '@<file>' as
\* its only member argument.  The file exists while the archiver runs and is
\* gone once the merge step has returned, whether the archiver failed or not.
C9_MergeStrategy ==
    /\ pc = "merge_running" =>
         IF system = Darwin
         THEN /\ running.argv = ar_cmd \o <<OutPath>> \o obj_files
              /\ ~listFile.exists
         ELSE /\ system \in {Linux, Windows}
              /\ running.argv = ar_cmd \o <<OutPath, <<"@">> \o ListName>>
              /\ listFile.exists
              /\ SplitLines(listFile.content) = obj_files
    /\ Cardinality(Returned({"merge"})) + (IF IsMerge(running) THEN 1 ELSE 0) <= 1
    /\ listFile.exists => pc = "merge_running"

C9_Witness ==
    /\ pc = "with_exit"
    /\ exc
    /\ system = Windows
    /\ Failed({"merge"}) # {}
    /\ Len(obj_files) >= 1
    /\ ~listFile.exists

\* C10: a run that fails before the merge step (bad install directory, unknown
\* system, a failed 'ar x') leaves the output path and its parent directory as
\* they were; they change only from merge_objects onward.
C10_OutputUntouchedBeforeMerge ==
    /\ (ConfigurationError \/ Failed({"x"}) # {}) =>
         (output = output0 /\ parentDir = parentDir0)
    /\ (output # output0 \/ parentDir # parentDir0) =>
         pc \in {"collect", "dispatch", "merge_running", "run_ranlib",
                 "ranlib_running", "with_exit", "main_end", "exit"}

C10_Witness ==
    /\ pc = "exit"
    /\ output0.exists
    /\ output = output0
    /\ Failed({"x"}) # {}

====
